---- MODULE Spec2Model ----
(***************************************************************************)
(* Model of the BettingHub ("Signalry") signal engine, its HTTP handlers   *)
(* and the polling signal feed.                                            *)
(*                                                                         *)
(*   supabase/functions/server/signals.tsx   generateSignal,               *)
(*       initializeMockMarkets, generateActiveSignals, computeSignalScore  *)
(*       and the Hono route handlers, the alert rules among them           *)
(*   src/app/components/LiveSignalFeed.tsx   the 30 s polling effect and   *)
(*       loadSignals                                                       *)
(*   src/app/App.tsx, src/app/components/Analytics.tsx   the two Apps'     *)
(*       initialization                                                    *)
(*                                                                         *)
(* Fractions are fixed point: a value of Math.random() is r/Scale with     *)
(* r in 0..Scale-1, a volatility is v/Scale.  Comparisons with 0.3, 0.7,   *)
(* ... are cross-multiplied, so they are exact for every Scale.            *)
(***************************************************************************)
EXTENDS Integers, Sequences, FiniteSets, TLC

VARIABLES
  kvMarket,      \* kv rows with key "market:market-<i>" : i -> JSON text
  kvSignal,      \* kv rows with key "signal:<id>"       : id -> JSON text
  clock,         \* the last value Date.now() returned on the server
  activeSignals, \* the array the last generateActiveSignals call returned
  resp,          \* the last HTTP response the server produced
  genIn,         \* argument of a direct generateSignal call
  genOut,        \* what that call returned
  scoreIn,       \* argument of a computeSignalScore call
  scoreOut,      \* what that call returned
  mounted,       \* LiveSignalFeed is mounted
  sportFilter,   \* LiveSignalFeed state
  confidenceFilter,
  timers,        \* the intervals setInterval created and clearInterval has not cleared
  effectTimer,   \* the interval the current effect's cleanup closes over
  nextTimer,     \* the next interval handle
  requests,      \* the GET /signals requests the feed has issued
  completed,     \* the requests whose loadSignals call has finished, and how
  signalsState,  \* LiveSignalFeed state "signals": the displayed list
  kvAlerts,      \* kv rows with key "user:<userId>:alerts" : userId -> JSON text
  alertCalls,    \* the POST /alerts/:userId requests the server is handling
  alertLog,      \* the POST /alerts/:userId requests answered, with their answers
  authRequired,  \* which App: the one behind sign-in, or the one without
  appMounted,    \* App is mounted
  user,          \* useAuth().user
  initialized,   \* App state
  signingIn,     \* what a sign-in that succeeded has still to do
  signIns,       \* the number of sign-ins made
  initCalls,     \* the number of initializeApp calls awaiting their fetch
  initOutcomes,  \* how the finished initializeApp calls ended, in order
  toasts         \* the toasts shown, in order

serverVars == <<kvMarket, kvSignal, clock, activeSignals, resp>>
genVars    == <<genIn, genOut>>
scoreVars  == <<scoreIn, scoreOut>>
feedVars   == <<mounted, sportFilter, confidenceFilter, timers, effectTimer, nextTimer,
                requests, completed, signalsState>>
alertVars  == <<kvAlerts, alertCalls, alertLog>>
appVars    == <<authRequired, appMounted, user, initialized, signingIn, signIns,
                initCalls, initOutcomes, toasts>>
vars       == <<kvMarket, kvSignal, clock, activeSignals, resp, genIn, genOut,
                scoreIn, scoreOut, mounted, sportFilter, confidenceFilter,
                timers, effectTimer, nextTimer, requests, completed, signalsState,
                kvAlerts, alertCalls, alertLog, authRequired, appMounted, user,
                initialized, signingIn, signIns, initCalls, initOutcomes, toasts>>

(***************************************************************************)
(* Bounds of the model.                                                    *)
(***************************************************************************)
\* Resolution of the fixed-point fractions.
Scale == 100
\* Date.now() takes the values 0..MaxTime.
MaxTime == 1
\* At most this many signal rows are stored (POST handlers that would store
\* more are not taken).
MaxSignals == 2
\* Magnitude of the out-of-range inputs tried on computeSignalScore.
ScoreSpan == 150
\* At most this many requests are issued by the feed.
MaxRequests == 4
\* computeSignalScore is called at most this many times on one argument.
MaxCalls == 2
\* At most this many POST /alerts/:userId requests are made.
MaxAlerts == 2
\* At most this many sign-ins are made in one App instance.
MaxSignIns == 4

(***************************************************************************)
(* JavaScript numbers: the finite ones (integers here; computeSignalScore's *)
(* weighted sum is carried in tenths), NaN, +Infinity and -Infinity.       *)
(***************************************************************************)
Fin(n) == [k |-> "fin", v |-> n]
NaN == [k |-> "nan", v |-> 0]
PosInf == [k |-> "inf", v |-> 1]
NegInf == [k |-> "inf", v |-> -1]

\* x * w for a positive finite weight w (the result is in units of 1/w's
\* denominator when x is finite).
JsTimes(x, w) == IF x.k = "fin" THEN Fin(x.v * w) ELSE x

\* x + y
JsPlus(x, y) ==
  IF x.k = "nan" \/ y.k = "nan" THEN NaN
  ELSE IF x.k = "inf" /\ y.k = "inf" THEN (IF x.v = y.v THEN x ELSE NaN)
  ELSE IF x.k = "inf" THEN x
  ELSE IF y.k = "inf" THEN y
  ELSE Fin(x.v + y.v)

\* Math.round of a number given in tenths: the nearest integer, a tie going
\* towards +Infinity.
MathRoundTenths(x) == IF x.k = "fin" THEN Fin((x.v + 5) \div 10) ELSE x

JsLess(x, y) ==
  IF x.k = "nan" \/ y.k = "nan" THEN FALSE
  ELSE IF x.k = "inf" THEN x.v = -1 /\ ~(y.k = "inf" /\ y.v = -1)
  ELSE IF y.k = "inf" THEN y.v = 1
  ELSE x.v < y.v

\* Math.max and Math.min answer NaN when an argument is NaN.
MathMax(x, y) ==
  IF x.k = "nan" \/ y.k = "nan" THEN NaN ELSE IF JsLess(x, y) THEN y ELSE x

MathMin(x, y) ==
  IF x.k = "nan" \/ y.k = "nan" THEN NaN ELSE IF JsLess(y, x) THEN y ELSE x

(***************************************************************************)
(* computeSignalScore                                                      *)
(***************************************************************************)
\* The weighted sum, in tenths: the weights 0.3, 0.2, 0.2, 0.1, 0.2.
WeightedScore(params) ==
  JsPlus(JsPlus(JsPlus(JsPlus(JsTimes(params.edgeSize, 3),
                              JsTimes(params.speed, 2)),
                       JsTimes(params.persistence, 2)),
                JsTimes(params.marketStability, 1)),
         JsTimes(params.historicalPerformance, 2))

\* A computeSignalScore that forgets the lower clamp.
computeSignalScoreNoFloor(params) ==
  MathMin(Fin(100), MathRoundTenths(WeightedScore(params)))

computeSignalScore(params) ==
  MathMin(Fin(100), MathMax(Fin(0), MathRoundTenths(WeightedScore(params))))

(***************************************************************************)
(* JSON text.  Every modelled field is a string, a finite number or an     *)
(* array/object of those, which JSON.stringify and JSON.parse carry        *)
(* unchanged; the text is kept distinct from the value it encodes.         *)
(***************************************************************************)
JSONstringify(v) == [json |-> v]
JSONparse(text) == text.json

\* null / undefined
Null == [null |-> TRUE]

(***************************************************************************)
(* The key-value store (kv_store.tsx): one table per key prefix.           *)
(***************************************************************************)
\* kv.set(key, value): the row of that key is created or replaced.
kvSet(table, key, value) ==
  [x \in (DOMAIN table) \cup {key} |-> IF x = key THEN value ELSE table[x]]

\* kv.get(key): the value, or null.
kvGet(table, key) == IF key \in DOMAIN table THEN table[key] ELSE Null

\* Every order in which the members of S can be listed.
Orderings(S) ==
  {q \in [1..Cardinality(S) -> S] : \A i, j \in 1..Cardinality(S) : q[i] = q[j] => i = j}

\* kv.getByPrefix(prefix): the rows whose key starts with the prefix, in an
\* order the store chooses.
kvGetByPrefix(table) ==
  Orderings({[key |-> x, value |-> table[x]] : x \in DOMAIN table})

(***************************************************************************)
(* generateSignal                                                          *)
(***************************************************************************)
\* Math.round(n / d) for d > 0
RoundDiv(n, d) == (2 * n + d) \div (2 * d)

MinInt(a, b) == IF a < b THEN a ELSE b

\* signalScore: volatility*40 + edge*5 + Math.random()*20, rounded and capped
\* at 100.  edge is Math.random()*8 + 2, carried as edge*Scale.
EdgeScaled(rEdge) == 8 * rEdge + 2 * Scale

\* A score without the Math.min(100, ...) cap.
SignalScoreNoCap(volatility, rEdge, rScore) ==
  RoundDiv(40 * volatility + 5 * EdgeScaled(rEdge) + 20 * rScore, Scale)

SignalScore(volatility, rEdge, rScore) ==
  MinInt(100, RoundDiv(40 * volatility + 5 * EdgeScaled(rEdge) + 20 * rScore, Scale))

\* A bucket that takes the cut-offs inclusively.
ConfidenceInclusive(signalScore) ==
  IF signalScore >= 75 THEN "high" ELSE IF signalScore >= 55 THEN "medium" ELSE "low"

Confidence(signalScore) ==
  IF signalScore > 75 THEN "high" ELSE IF signalScore > 55 THEN "medium" ELSE "low"

\* A gate that also turns away a volatility of exactly 0.3.
BelowThresholdInclusive(volatility) == volatility * 10 <= 3 * Scale

\* volatility < 0.3
BelowThreshold(volatility) == volatility * 10 < 3 * Scale

\* generateSignal(marketState) called when Date.now() is now, with the draws
\* of Math.random() for the edge, the score and the id.  The two reads of
\* Date.now() in one call (triggeredAt, id) are taken in the same
\* millisecond.  The fields drawn independently of everything modelled here
\* (bestLine, consensus, aiProbability, trigger, explanation, whatChanged,
\* oddsMovement, timeToStart) are left out.
generateSignal(marketState, now, rEdge, rScore, rId) ==
  IF BelowThreshold(marketState.volatility) THEN Null
  ELSE
    LET signalScore == SignalScore(marketState.volatility, rEdge, rScore) IN
    [ id          |-> <<"signal", now, rId>>,
      eventId     |-> marketState.eventId,
      eventName   |-> marketState.eventName,
      sport       |-> marketState.sport,
      marketType  |-> marketState.marketType,
      triggeredAt |-> now,
      signalScore |-> signalScore,
      edge        |-> EdgeScaled(rEdge),
      confidence  |-> Confidence(signalScore),
      riskLabel   |-> IF marketState.volatility * 10 > 7 * Scale THEN "high"
                      ELSE IF marketState.volatility * 10 > 4 * Scale THEN "medium"
                      ELSE "low",
      volatility  |-> IF marketState.volatility * 10 > 7 * Scale THEN "extreme"
                      ELSE IF marketState.volatility * 10 > 5 * Scale THEN "high"
                      ELSE "normal" ]

(***************************************************************************)
(* initializeMockMarkets                                                   *)
(***************************************************************************)
\* The loop bound of initializeMockMarkets (25 in the source).
NumMarkets == 2

\* Two of the six sports, two of each sport's six teams, two of the four
\* market types.
Sports == {"NFL", "NBA"}
Teams(sport) == IF sport = "NFL" THEN {"Chiefs", "Bills"} ELSE {"Lakers", "Celtics"}
MarketTypes == {"Moneyline", "Spread"}

\* What one iteration draws: the sport, team1, the teams drawn for team2 in
\* turn (the last of them, and only the last, differs from team1), the market
\* type and the volatility Math.random() returned.
MarketDraw(sport, team1, team2Picks, marketType, volatility) ==
  [sport |-> sport, team1 |-> team1, team2Picks |-> team2Picks,
   marketType |-> marketType, volatility |-> volatility]

\* A team2 that is not drawn again when it equals team1.
DrawTeam2NoRetry(team1, picks) == Head(picks)

\* team2: drawn, and drawn again while it equals team1.
RECURSIVE DrawTeam2(_, _)
DrawTeam2(team1, picks) ==
  IF Head(picks) # team1 THEN Head(picks) ELSE DrawTeam2(team1, Tail(picks))

\* The draws tried by the server model: a market far above the 0.3 gate, the
\* least volatility that passes it, and the greatest that does not.
MarketDraws ==
  { MarketDraw("NFL", "Chiefs", <<"Chiefs", "Bills">>, "Moneyline", Scale - 1),
    MarketDraw("NBA", "Lakers", <<"Celtics">>, "Spread", (3 * Scale + 9) \div 10),
    MarketDraw("NBA", "Celtics", <<"Celtics", "Celtics", "Lakers">>, "Moneyline",
               (3 * Scale + 9) \div 10 - 1) }

MarketId(i) == <<"market", i>>
EventId(i) == <<"event", i>>

\* A MarketState whose volatility is drawn the way momentum is
\* (Math.random() * 2 - 1).
NewMarketStateAsMomentum(i, draw) ==
  [ marketId   |-> MarketId(i),
    eventId    |-> EventId(i),
    eventName  |-> <<draw.team1, "@", DrawTeam2(draw.team1, draw.team2Picks)>>,
    sport      |-> draw.sport,
    marketType |-> draw.marketType,
    volatility |-> 2 * draw.volatility - Scale ]

\* The MarketState built in iteration i.  lastOdds and pollingCadence are
\* literals; impliedProbability, momentum and lastUpdate are drawn and read
\* by nothing modelled here; they are left out.
NewMarketState(i, draw) ==
  [ marketId   |-> MarketId(i),
    eventId    |-> EventId(i),
    eventName  |-> <<draw.team1, "@", DrawTeam2(draw.team1, draw.team2Picks)>>,
    sport      |-> draw.sport,
    marketType |-> draw.marketType,
    volatility |-> draw.volatility ]

\* Iterations i .. NumMarkets-1 of the loop: the table after them.
RECURSIVE InitLoop(_, _, _)
InitLoop(i, table, draws) ==
  IF i >= NumMarkets THEN table
  ELSE InitLoop(i + 1,
                kvSet(table, NewMarketState(i, draws[i]).marketId,
                      JSONstringify(NewMarketState(i, draws[i]))),
                draws)

initializeMockMarkets(table, draws) == InitLoop(0, table, draws)

(***************************************************************************)
(* generateActiveSignals                                                   *)
(***************************************************************************)
\* The comparator of markets.sort: b.volatility - a.volatility.
MarketCompare(a, b) == b.volatility - a.volatility

\* Array.prototype.sort is stable: x goes behind every element that does
\* not compare behind it.
RECURSIVE InsertMarket(_, _)
InsertMarket(sorted, x) ==
  IF sorted = <<>> THEN <<x>>
  ELSE IF MarketCompare(Head(sorted), x) <= 0
       THEN <<Head(sorted)>> \o InsertMarket(Tail(sorted), x)
       ELSE <<x>> \o sorted

RECURSIVE SortMarkets(_)
SortMarkets(list) ==
  IF list = <<>> THEN <<>>
  ELSE InsertMarket(SortMarkets(SubSeq(list, 1, Len(list) - 1)), list[Len(list)])

\* What generateSignal draws in one call.
SignalDraws ==
  { [rEdge |-> 14, rScore |-> Scale - 1, rId |-> 0],
    [rEdge |-> 14, rScore |-> Scale - 1, rId |-> 1],
    [rEdge |-> Scale - 1, rScore |-> Scale - 1, rId |-> 0] }

\* The number of iterations of "for (i = 0; i < Math.min(count, length); i++)",
\* count given in halves.
LoopCount(countHalves, length) ==
  Cardinality({i \in 0..(length - 1) : 2 * i < countHalves})

\* Iterations i.. of the loop over sortedMarkets (1-based here): every
\* outcome [signals, table, clock] the draws and the clock allow.
RECURSIVE GenerateLoop(_, _, _, _, _, _)
GenerateLoop(sortedMarkets, i, n, table, now, signals) ==
  IF i > n THEN {[signals |-> signals, table |-> table, clock |-> now]}
  ELSE UNION { UNION {
    IF signal = Null
    THEN GenerateLoop(sortedMarkets, i + 1, n, table, t, signals)
    ELSE GenerateLoop(sortedMarkets, i + 1, n,
                      kvSet(table, signal.id, JSONstringify(signal)),
                      t, Append(signals, signal))
    : signal \in {generateSignal(sortedMarkets[i], t, d.rEdge, d.rScore, d.rId)
                    : d \in SignalDraws} }
    : t \in now..MaxTime }

\* The orders sortedMarkets can have: the rows of getByPrefix, parsed and
\* sorted by volatility, highest first.
SortedMarkets(marketTable) ==
  { SortMarkets([i \in 1..Len(marketKeys) |-> JSONparse(marketKeys[i].value)])
    : marketKeys \in kvGetByPrefix(marketTable) }

\* generateActiveSignals(count) on the market table and the signal table.
generateActiveSignals(countHalves, marketTable, signalTable, now) ==
  UNION {
    GenerateLoop(sortedMarkets, 1, LoopCount(countHalves, Len(sortedMarkets)),
                 signalTable, now, <<>>)
    : sortedMarkets \in SortedMarkets(marketTable) }

(***************************************************************************)
(* The route handlers                                                      *)
(***************************************************************************)
\* generateActiveSignals(15) in POST /init; the default of ?count= in
\* POST /signals/generate; the "markets" figure of the init response.
InitCount == 15
DefaultCount == 5
InitMarketsReported == 25

NoResponse == [route |-> "none"]

\* POST /init
PostInit ==
  \E draws \in [0..(NumMarkets - 1) -> MarketDraws] :
    LET marketTable == initializeMockMarkets(kvMarket, draws) IN
    \E out \in generateActiveSignals(2 * InitCount, marketTable, kvSignal, clock) :
      /\ Cardinality(DOMAIN out.table) <= MaxSignals
      /\ kvMarket' = marketTable
      /\ kvSignal' = out.table
      /\ clock' = out.clock
      /\ activeSignals' = out.signals
      /\ resp' = [route |-> "init", status |-> 200, success |-> TRUE,
                  markets |-> InitMarketsReported, signals |-> Len(out.signals)]
      /\ UNCHANGED <<genVars, scoreVars, feedVars, alertVars, appVars>>

\* The ?count= values tried, in halves: 1, 1.5, 2, -1, and 0 / absent / not
\* a number, for which "Number(...) || 5" is 5.
CountParams == {2, 3, 4, -2, 0}

\* POST /signals/generate?count= ; the response is recorded with the count
\* (in halves) the handler passed to generateActiveSignals.
PostGenerate ==
  \E countParam \in CountParams :
    LET countHalves == IF countParam = 0 THEN 2 * DefaultCount ELSE countParam IN
    \E out \in generateActiveSignals(countHalves, kvMarket, kvSignal, clock) :
      /\ Cardinality(DOMAIN out.table) <= MaxSignals
      /\ kvSignal' = out.table
      /\ clock' = out.clock
      /\ activeSignals' = out.signals
      /\ resp' = [route |-> "generate", status |-> 200, count |-> countHalves,
                  signals |-> out.signals]
      /\ UNCHANGED <<kvMarket, genVars, scoreVars, feedVars, alertVars, appVars>>

\* A comparator that orders by score alone.
SignalCompareScoreOnly(a, b) == b.signalScore - a.signalScore

\* The comparator of GET /signals: score descending, then time descending.
SignalCompare(a, b) ==
  IF b.signalScore # a.signalScore
  THEN b.signalScore - a.signalScore
  ELSE b.triggeredAt - a.triggeredAt

RECURSIVE InsertSignal(_, _)
InsertSignal(sorted, x) ==
  IF sorted = <<>> THEN <<x>>
  ELSE IF SignalCompare(Head(sorted), x) <= 0
       THEN <<Head(sorted)>> \o InsertSignal(Tail(sorted), x)
       ELSE <<x>> \o sorted

RECURSIVE SortSignals(_)
SortSignals(list) ==
  IF list = <<>> THEN <<>>
  ELSE InsertSignal(SortSignals(SubSeq(list, 1, Len(list) - 1)), list[Len(list)])

\* The minimum score of a minConfidence value.
MinScore(minConfidence) ==
  IF minConfidence = "high" THEN 75 ELSE IF minConfidence = "medium" THEN 55 ELSE 0

\* A filter step that drops the sport filter.
FilterSignalsNoSport(allSignals, sport, marketType, minConfidence) ==
  LET bySport == allSignals
      byType  == IF marketType # ""
                 THEN SelectSeq(bySport, LAMBDA x : x.marketType = marketType)
                 ELSE bySport
  IN IF minConfidence # ""
     THEN SelectSeq(byType, LAMBDA x : x.signalScore >= MinScore(minConfidence))
     ELSE byType

\* The three filters of GET /signals; "" is an absent (or empty) parameter.
FilterSignals(allSignals, sport, marketType, minConfidence) ==
  LET bySport == IF sport # ""
                 THEN SelectSeq(allSignals, LAMBDA x : x.sport = sport)
                 ELSE allSignals
      byType  == IF marketType # ""
                 THEN SelectSeq(bySport, LAMBDA x : x.marketType = marketType)
                 ELSE bySport
  IN IF minConfidence # ""
     THEN SelectSeq(byType, LAMBDA x : x.signalScore >= MinScore(minConfidence))
     ELSE byType

\* The body of GET /signals on the rows getByPrefix returned.
GetSignalsBody(signalKeys, sport, marketType, minConfidence) ==
  LET allSignals == [i \in 1..Len(signalKeys) |-> JSONparse(signalKeys[i].value)] IN
  [signals |-> SortSignals(FilterSignals(allSignals, sport, marketType, minConfidence))]

\* The query parameters tried.
SportParams == {"", "NFL", "NBA"}
MarketTypeParams == {"", "Moneyline", "Spread"}
MinConfidenceParams == {"", "high", "medium", "low"}

\* GET /signals?sport=&marketType=&minConfidence=
GetSignals ==
  \E sport \in SportParams, marketType \in MarketTypeParams,
     minConfidence \in MinConfidenceParams :
    \E signalKeys \in kvGetByPrefix(kvSignal) :
      /\ resp' = [route |-> "signals", status |-> 200,
                  sport |-> sport, marketType |-> marketType,
                  minConfidence |-> minConfidence,
                  body |-> GetSignalsBody(signalKeys, sport, marketType, minConfidence)]
      /\ UNCHANGED <<kvMarket, kvSignal, clock, activeSignals, genVars, scoreVars, feedVars,
                   alertVars, appVars>>

\* byConfidence of GET /analytics.
ByConfidence(allSignals) ==
  [ high   |-> Len(SelectSeq(allSignals, LAMBDA x : x.confidence = "high")),
    medium |-> Len(SelectSeq(allSignals, LAMBDA x : x.confidence = "medium")),
    low    |-> Len(SelectSeq(allSignals, LAMBDA x : x.confidence = "low")) ]

\* bySport of GET /analytics: a count for each sport that occurs.
BySport(allSignals) ==
  [sp \in {allSignals[i].sport : i \in 1..Len(allSignals)} |->
     Len(SelectSeq(allSignals, LAMBDA x : x.sport = sp))]

\* The body of GET /analytics.  performanceHistory is drawn at random and
\* winRate, avgCLV and roi are literals; avgSignalScore is left out.
GetAnalyticsBody(signalKeys) ==
  LET allSignals == [i \in 1..Len(signalKeys) |-> JSONparse(signalKeys[i].value)] IN
  [ totalSignals |-> Len(allSignals),
    bySport      |-> BySport(allSignals),
    byConfidence |-> ByConfidence(allSignals) ]

\* GET /analytics
GetAnalytics ==
  \E signalKeys \in kvGetByPrefix(kvSignal) :
    /\ resp' = [route |-> "analytics", status |-> 200, body |-> GetAnalyticsBody(signalKeys)]
    /\ UNCHANGED <<kvMarket, kvSignal, clock, activeSignals, genVars, scoreVars, feedVars,
                   alertVars, appVars>>

\* The :id values tried: every id generateSignal can produce here.
SignalIdParams == {<<"signal", t, rId>> : t \in 0..MaxTime, rId \in 0..1}

\* The :id values tried: market-0 .. market-NumMarkets, the last of which
\* initializeMockMarkets never stores.
MarketIdParams == {MarketId(i) : i \in 0..NumMarkets}

\* A GET /signals/:id that skips the "if (!signalData)" test.
SignalByIdResponseNoCheck(signalData) ==
  [status |-> 200, body |-> [signal |-> signalData]]

\* What GET /signals/:id answers when kv.get returned signalData.
SignalByIdResponse(signalData) ==
  IF signalData = Null
  THEN [status |-> 404, body |-> [error |-> "Signal not found"]]
  ELSE [status |-> 200, body |-> [signal |-> JSONparse(signalData)]]

\* What GET /markets/:id answers when kv.get returned marketData.  history
\* (drawn at random) and books (literals) are left out of the body.
MarketByIdResponse(marketData) ==
  IF marketData = Null
  THEN [status |-> 404, body |-> [error |-> "Market not found"]]
  ELSE [status |-> 200, body |-> [market |-> JSONparse(marketData)]]

\* GET /signals/:id
GetSignalById ==
  \E id \in SignalIdParams :
    LET answer == SignalByIdResponse(kvGet(kvSignal, id)) IN
    /\ resp' = [route |-> "signal", id |-> id,
                status |-> answer.status, body |-> answer.body]
    /\ UNCHANGED <<kvMarket, kvSignal, clock, activeSignals, genVars, scoreVars, feedVars,
                   alertVars, appVars>>

\* GET /markets/:id
GetMarketById ==
  \E id \in MarketIdParams :
    LET answer == MarketByIdResponse(kvGet(kvMarket, id)) IN
    /\ resp' = [route |-> "market", id |-> id,
                status |-> answer.status, body |-> answer.body]
    /\ UNCHANGED <<kvMarket, kvSignal, clock, activeSignals, genVars, scoreVars, feedVars,
                   alertVars, appVars>>

(***************************************************************************)
(* The alert rules: GET and POST /alerts/:userId                           *)
(***************************************************************************)
\* The :userId values and the request bodies tried: a plain rule, and a body
\* that brings its own id and createdAt.
AlertUsers == {"u1", "u2"}
AlertBodies ==
  { [minScore |-> 75],
    [id |-> "mine", createdAt |-> -1] }

\* alertsData ? JSON.parse(alertsData) : []
ParseAlerts(alertsData) == IF alertsData = Null THEN <<>> ELSE JSONparse(alertsData)

\* An alert built as { id, createdAt, ...body }: the body's fields win.
NewAlertBodyLast(body, idTime, createdAt) ==
  [k \in {"id", "createdAt"} \cup DOMAIN body |->
     IF k \in DOMAIN body THEN body[k]
     ELSE IF k = "createdAt" THEN createdAt
     ELSE <<"alert", idTime>>]

\* newAlert = { id: `alert-${Date.now()}`, ...body, createdAt: Date.now() }:
\* a field of the body replaces id, and createdAt replaces a field of the
\* body.
NewAlert(body, idTime, createdAt) ==
  [k \in {"id", "createdAt"} \cup DOMAIN body |->
     IF k = "createdAt" THEN createdAt
     ELSE IF k \in DOMAIN body THEN body[k]
     ELSE <<"alert", idTime>>]

\* POST /alerts/:userId up to the call of kv.set: kv.get answers, the list
\* is parsed, the new alert is built with two reads of Date.now() and pushed.
PostAlertRead ==
  \E userId \in AlertUsers, body \in AlertBodies :
    \E idTime \in clock..MaxTime :
      \E createdAt \in idTime..MaxTime :
        LET alerts   == ParseAlerts(kvGet(kvAlerts, userId))
            newAlert == NewAlert(body, idTime, createdAt)
        IN
        /\ Len(alertLog) + Cardinality(alertCalls) < MaxAlerts
        /\ alertCalls' = alertCalls \cup
                           {[ call |-> Len(alertLog) + Cardinality(alertCalls) + 1,
                              userId |-> userId, body |-> body,
                              alerts |-> Append(alerts, newAlert),
                              newAlert |-> newAlert ]}
        /\ clock' = createdAt
        /\ UNCHANGED <<kvAlerts, alertLog, kvMarket, kvSignal, activeSignals, resp,
                       genVars, scoreVars, feedVars, appVars>>

\* The same, made by a client that waits for each answer before it sends
\* the next request.
PostAlertReadSequential == alertCalls = {} /\ PostAlertRead

\* POST /alerts/:userId from kv.set on: the list is written back and the new
\* alert is answered.
PostAlertWrite ==
  \E c \in alertCalls :
    /\ kvAlerts' = kvSet(kvAlerts, c.userId, JSONstringify(c.alerts))
    /\ alertCalls' = alertCalls \ {c}
    /\ alertLog' = Append(alertLog, [userId |-> c.userId, body |-> c.body,
                                      status |-> 200, alert |-> c.newAlert])
    /\ UNCHANGED <<kvMarket, kvSignal, clock, activeSignals, resp,
                   genVars, scoreVars, feedVars, appVars>>

\* GET /alerts/:userId ; the response is recorded with the number of POST
\* requests answered before it.
GetAlerts ==
  \E userId \in AlertUsers :
    /\ resp' = [route |-> "alerts", userId |-> userId, status |-> 200,
                after |-> Len(alertLog),
                body |-> [alerts |-> ParseAlerts(kvGet(kvAlerts, userId))]]
    /\ UNCHANGED <<kvMarket, kvSignal, clock, activeSignals, alertVars,
                   genVars, scoreVars, feedVars, appVars>>

(***************************************************************************)
(* LiveSignalFeed: the polling effect                                      *)
(***************************************************************************)
\* The delay of setInterval(loadSignals, 30000).
RefreshInterval == 30000

\* The values the two Select controls offer.
SportChoices == {"all", "NFL", "NBA"}
ConfidenceChoices == {"all", "high", "medium"}

\* loadSignals of a render with these filter values: the GET /signals
\* request it sends.
LoadSignalsRequest(sport, confidence) ==
  [ sport         |-> IF sport # "all" THEN sport ELSE "",
    minConfidence |-> IF confidence # "all" THEN confidence ELSE "" ]

\* A cleanup that leaves the interval running.
EffectCleanupNoClear(active, interval) == active

\* The effect's cleanup: clearInterval(interval).
EffectCleanup(active, interval) == {t \in active : t.id # interval}

\* The effect's body in a render with these filter values: loadSignals() is
\* called and an interval is created that calls this render's loadSignals.
EffectBody(active, handle, sport, confidence) ==
  active \cup {[id |-> handle, delay |-> RefreshInterval,
                sport |-> sport, confidence |-> confidence]}

\* The component mounts: fresh state, first render, the effect runs.
Mount ==
  /\ ~mounted
  /\ Len(requests) < MaxRequests
  /\ mounted' = TRUE
  /\ sportFilter' = "all"
  /\ confidenceFilter' = "all"
  /\ requests' = Append(requests, LoadSignalsRequest("all", "all"))
  /\ timers' = EffectBody(timers, nextTimer, "all", "all")
  /\ effectTimer' = nextTimer
  /\ nextTimer' = nextTimer + 1
  /\ signalsState' = <<>>
  /\ UNCHANGED <<completed, serverVars, genVars, scoreVars, alertVars, appVars>>

\* A render whose dependencies [sportFilter, confidenceFilter] changed: the
\* previous effect's cleanup runs, then the effect.
Rerender(sport, confidence) ==
  /\ requests' = Append(requests, LoadSignalsRequest(sport, confidence))
  /\ timers' = EffectBody(EffectCleanup(timers, effectTimer), nextTimer, sport, confidence)
  /\ effectTimer' = nextTimer
  /\ nextTimer' = nextTimer + 1

\* The sport Select reports another value.
SetSportFilter ==
  \E sport \in SportChoices :
    /\ mounted
    /\ sport # sportFilter
    /\ Len(requests) < MaxRequests
    /\ sportFilter' = sport
    /\ Rerender(sport, confidenceFilter)
    /\ UNCHANGED <<mounted, confidenceFilter, completed, signalsState,
                   serverVars, genVars, scoreVars, alertVars, appVars>>

\* The confidence Select reports another value.
SetConfidenceFilter ==
  \E confidence \in ConfidenceChoices :
    /\ mounted
    /\ confidence # confidenceFilter
    /\ Len(requests) < MaxRequests
    /\ confidenceFilter' = confidence
    /\ Rerender(sportFilter, confidence)
    /\ UNCHANGED <<mounted, sportFilter, completed, signalsState,
                   serverVars, genVars, scoreVars, alertVars, appVars>>

\* An interval fires: the loadSignals it was created with runs.
TimerTick ==
  \E t \in timers :
    /\ Len(requests) < MaxRequests
    /\ requests' = Append(requests, LoadSignalsRequest(t.sport, t.confidence))
    /\ UNCHANGED <<mounted, sportFilter, confidenceFilter, timers, effectTimer,
                   nextTimer, completed, signalsState,
                   serverVars, genVars, scoreVars, alertVars, appVars>>

\* The Refresh button: the current render's loadSignals.
Refresh ==
  /\ mounted
  /\ Len(requests) < MaxRequests
  /\ requests' = Append(requests, LoadSignalsRequest(sportFilter, confidenceFilter))
  /\ UNCHANGED <<mounted, sportFilter, confidenceFilter, timers, effectTimer,
                 nextTimer, completed, signalsState,
                 serverVars, genVars, scoreVars, alertVars, appVars>>

\* The requests whose loadSignals call has not finished.
Outstanding == {i \in 1..Len(requests) : \A c \in completed : c.request # i}

\* A loadSignals call finishes: fetch and response.json() gave the body of
\* GET /signals for the request's parameters and setSignals(data.signals ||
\* []) runs, or one of them threw and the list stays.
LoadSignalsResponse ==
  \E i \in Outstanding :
    /\ mounted
    /\ \/ \E signalKeys \in kvGetByPrefix(kvSignal) :
            /\ signalsState' = GetSignalsBody(signalKeys, requests[i].sport, "",
                                              requests[i].minConfidence).signals
            /\ completed' = completed \cup {[request |-> i, outcome |-> "ok"]}
       \/ /\ signalsState' = signalsState
          /\ completed' = completed \cup {[request |-> i, outcome |-> "error"]}
    /\ UNCHANGED <<mounted, sportFilter, confidenceFilter, timers, effectTimer,
                   nextTimer, requests, serverVars, genVars, scoreVars, alertVars, appVars>>

\* The component unmounts: the effect's cleanup runs.  What the loadSignals
\* calls still running set afterwards is state of a component that is gone.
Unmount ==
  /\ mounted
  /\ mounted' = FALSE
  /\ timers' = EffectCleanup(timers, effectTimer)
  /\ completed' = completed \cup {[request |-> i, outcome |-> "unmounted"] : i \in Outstanding}
  /\ UNCHANGED <<sportFilter, confidenceFilter, effectTimer, nextTimer, requests,
                 signalsState, serverVars, genVars, scoreVars, alertVars, appVars>>

(***************************************************************************)
(* App: initialization.  The App of App.tsx initializes on mount; the App  *)
(* behind sign-in initializes in an effect that depends on the user.       *)
(***************************************************************************)
InitSuccessToast == "success: Initialized with active signals"
InitErrorToast == "error: Failed to initialize. Please refresh the page."

\* An effect that calls initializeApp whenever a user is present.
InitEffectIgnoringInitialized(userNow, initializedNow) ==
  IF userNow # Null THEN 1 ELSE 0

\* The effect "if (user && !initialized) initializeApp()" of a render with
\* these values: the number of initializeApp calls it makes.
InitEffect(userNow, initializedNow) ==
  IF userNow # Null /\ ~initializedNow THEN 1 ELSE 0

\* The App without sign-in mounts: its effect (dependencies []) calls
\* initializeApp.
AppMount ==
  /\ ~authRequired
  /\ ~appMounted
  /\ appMounted' = TRUE
  /\ initCalls' = initCalls + 1
  /\ UNCHANGED <<authRequired, user, initialized, signingIn, signIns, initOutcomes, toasts,
                 serverVars, genVars, scoreVars, feedVars, alertVars>>

\* The App behind sign-in mounts without a user: the effect makes no call and
\* Auth is shown.
AuthAppMount ==
  /\ authRequired
  /\ ~appMounted
  /\ appMounted' = TRUE
  /\ initCalls' = initCalls + InitEffect(user, initialized)
  /\ UNCHANGED <<authRequired, user, initialized, signingIn, signIns, initOutcomes, toasts,
                 serverVars, genVars, scoreVars, feedVars, alertVars>>

\* A sign-in made in Auth succeeds: the user state will change and Auth will
\* call onSuccess, in an order Auth and the auth context decide.
AuthSignIn ==
  /\ authRequired
  /\ appMounted
  /\ user = Null
  /\ signingIn = {}
  /\ signIns < MaxSignIns
  /\ signingIn' = {"user", "onSuccess"}
  /\ signIns' = signIns + 1
  /\ UNCHANGED <<authRequired, appMounted, user, initialized, initCalls, initOutcomes, toasts,
                 serverVars, genVars, scoreVars, feedVars, alertVars>>

\* useAuth().user becomes the signed-in user: App renders and the effect,
\* whose dependency [user] changed, runs with that render's values.
UserChange ==
  /\ "user" \in signingIn
  /\ signingIn' = signingIn \ {"user"}
  /\ user' = [id |-> signIns]
  /\ initCalls' = initCalls + InitEffect([id |-> signIns], initialized)
  /\ UNCHANGED <<authRequired, appMounted, initialized, signIns, initOutcomes, toasts,
                 serverVars, genVars, scoreVars, feedVars, alertVars>>

\* Auth calls onSuccess: setInitialized(false).  The render that follows
\* changes no dependency of the effect.
AuthOnSuccess ==
  /\ "onSuccess" \in signingIn
  /\ signingIn' = signingIn \ {"onSuccess"}
  /\ initialized' = FALSE
  /\ UNCHANGED <<authRequired, appMounted, user, signIns, initCalls, initOutcomes, toasts,
                 serverVars, genVars, scoreVars, feedVars, alertVars>>

\* signOut(): the user becomes null; the effect runs and makes no call.
SignOut ==
  /\ authRequired
  /\ user # Null
  /\ user' = Null
  /\ initCalls' = initCalls + InitEffect(Null, initialized)
  /\ UNCHANGED <<authRequired, appMounted, initialized, signingIn, signIns, initOutcomes,
                 toasts, serverVars, genVars, scoreVars, feedVars, alertVars>>

\* initializeApp: fetch answered with response.ok.
InitResponseOk ==
  /\ initCalls > 0
  /\ initCalls' = initCalls - 1
  /\ initialized' = TRUE
  /\ toasts' = Append(toasts, InitSuccessToast)
  /\ initOutcomes' = Append(initOutcomes, "ok")
  /\ UNCHANGED <<authRequired, appMounted, user, signingIn, signIns,
                 serverVars, genVars, scoreVars, feedVars, alertVars>>

\* initializeApp: fetch answered with a response that is not ok (the 500 of
\* POST /init): the if has no else.
InitResponseNotOk ==
  /\ initCalls > 0
  /\ initCalls' = initCalls - 1
  /\ initOutcomes' = Append(initOutcomes, "not ok")
  /\ UNCHANGED <<authRequired, appMounted, user, initialized, signingIn, signIns, toasts,
                 serverVars, genVars, scoreVars, feedVars, alertVars>>

\* initializeApp: fetch (or response.json()) threw: the catch block.
InitFetchThrows ==
  /\ initCalls > 0
  /\ initCalls' = initCalls - 1
  /\ toasts' = Append(toasts, InitErrorToast)
  /\ initOutcomes' = Append(initOutcomes, "threw")
  /\ UNCHANGED <<authRequired, appMounted, user, initialized, signingIn, signIns,
                 serverVars, genVars, scoreVars, feedVars, alertVars>>

(***************************************************************************)
(* Direct calls of the two pure functions                                  *)
(***************************************************************************)
\* The Math.random() values tried in a direct generateSignal call.
RandSamples == {0, 14, Scale \div 4, Scale \div 2, Scale - 1}

\* The market states tried: every volatility k/Scale.
GenInputs ==
  { NewMarketState(0, MarketDraw(sport, CHOOSE a \in Teams(sport) : TRUE,
                                 <<CHOOSE b \in Teams(sport) : b # (CHOOSE a \in Teams(sport) : TRUE)>>,
                                 marketType, volatility))
    : sport \in Sports, marketType \in MarketTypes, volatility \in 0..(Scale - 1) }

NotCalled == [called |-> FALSE]

\* A generateSignal that stores the signal it returns.
GenerateSignalCallStoring ==
  \E now \in 0..MaxTime, rEdge \in RandSamples, rScore \in RandSamples :
    LET result == generateSignal(genIn, now, rEdge, rScore, 0) IN
    /\ genOut' = [called |-> TRUE, rEdge |-> rEdge, rScore |-> rScore, result |-> result]
    /\ kvSignal' = IF result = Null THEN kvSignal
                   ELSE kvSet(kvSignal, result.id, JSONstringify(result))
    /\ UNCHANGED <<genIn, kvMarket, clock, activeSignals, resp, scoreVars, feedVars,
                   alertVars, appVars>>

\* generateSignal(genIn)
GenerateSignalCall ==
  \E now \in 0..MaxTime, rEdge \in RandSamples, rScore \in RandSamples :
    /\ genOut' = [called |-> TRUE, rEdge |-> rEdge, rScore |-> rScore,
                  result |-> generateSignal(genIn, now, rEdge, rScore, 0)]
    /\ UNCHANGED <<genIn, serverVars, scoreVars, feedVars, alertVars, appVars>>

\* The numbers tried for each field of computeSignalScore's argument.
ScoreSamples ==
  { Fin(-ScoreSpan), Fin(-5), Fin(0), Fin(5), Fin(100), Fin(ScoreSpan),
    NaN, PosInf, NegInf }

ScoreInputs ==
  [ edgeSize : ScoreSamples, speed : {Fin(0), Fin(5), NegInf},
    persistence : {Fin(-5), Fin(100)},
    marketStability : ScoreSamples, historicalPerformance : {Fin(0), Fin(ScoreSpan)} ]

\* The number of calls scoreOut records.
ScoreCalls == IF scoreOut.called THEN scoreOut.calls ELSE 0

\* computeSignalScore(scoreIn), called once more.
ComputeSignalScoreCall ==
  /\ ScoreCalls < MaxCalls
  /\ scoreOut' = [called |-> TRUE, calls |-> ScoreCalls + 1,
                  result |-> computeSignalScore(scoreIn)]
  /\ UNCHANGED <<scoreIn, serverVars, genVars, feedVars, alertVars, appVars>>

(***************************************************************************)
(* Specifications                                                          *)
(***************************************************************************)
EmptyTable == [x \in {} |-> Null]

ServerIdle ==
  /\ kvMarket = EmptyTable
  /\ kvSignal = EmptyTable
  /\ clock = 0
  /\ activeSignals = <<>>
  /\ resp = NoResponse

GenIdle == genIn = Null /\ genOut = NotCalled

ScoreIdle == scoreIn = Null /\ scoreOut = NotCalled

FeedIdle ==
  /\ mounted = FALSE
  /\ sportFilter = "all"
  /\ confidenceFilter = "all"
  /\ timers = {}
  /\ effectTimer = 0
  /\ nextTimer = 1
  /\ requests = <<>>
  /\ completed = {}
  /\ signalsState = <<>>

AlertIdle ==
  /\ kvAlerts = EmptyTable
  /\ alertCalls = {}
  /\ alertLog = <<>>

AppIdle ==
  /\ authRequired = FALSE
  /\ appMounted = FALSE
  /\ user = Null
  /\ initialized = FALSE
  /\ signingIn = {}
  /\ signIns = 0
  /\ initCalls = 0
  /\ initOutcomes = <<>>
  /\ toasts = <<>>

\* The server: an empty store, then POST /init and POST /signals/generate in
\* any order.
Init == ServerIdle /\ GenIdle /\ ScoreIdle /\ FeedIdle /\ AlertIdle /\ AppIdle

Next == PostInit \/ PostGenerate

Spec == Init /\ [][Next]_vars

\* The signals generateSignal can return for the markets of MarketDraws.
SignalPool ==
  { generateSignal(NewMarketState(0, m), t, d.rEdge, d.rScore, d.rId)
    : m \in MarketDraws, t \in 0..MaxTime, d \in SignalDraws } \ {Null}

\* The signal tables n calls of kv.set with such signals can leave.
RECURSIVE SignalTables(_)
SignalTables(n) ==
  IF n = 0 THEN {EmptyTable}
  ELSE SignalTables(n - 1) \cup
       { kvSet(table, sig.id, JSONstringify(sig))
         : table \in SignalTables(n - 1), sig \in SignalPool }

\* The read handlers on every such signal table.
QueryInit ==
  /\ kvSignal \in SignalTables(MaxSignals)
  /\ kvMarket = EmptyTable
  /\ clock = MaxTime
  /\ activeSignals = <<>>
  /\ resp = NoResponse
  /\ GenIdle /\ ScoreIdle /\ FeedIdle /\ AlertIdle /\ AppIdle

QueryNext == GetSignals \/ GetAnalytics

SpecQuery == QueryInit /\ [][QueryNext]_vars

\* The market tables an init can leave.
MarketTables ==
  { initializeMockMarkets(EmptyTable, draws) : draws \in [0..(NumMarkets - 1) -> MarketDraws] }

\* The lookups by id, before the first init and on every store an init and
\* later generate calls can leave.
LookupInit ==
  /\ \/ kvMarket = EmptyTable /\ kvSignal = EmptyTable
     \/ kvMarket \in MarketTables /\ kvSignal \in SignalTables(MaxSignals)
  /\ clock = MaxTime
  /\ activeSignals = <<>>
  /\ resp = NoResponse
  /\ GenIdle /\ ScoreIdle /\ FeedIdle /\ AlertIdle /\ AppIdle

LookupNext == GetSignalById \/ GetMarketById

SpecLookup == LookupInit /\ [][LookupNext]_vars

\* generateSignal on every market state of GenInputs.
GenInit ==
  /\ genIn \in GenInputs /\ genOut = NotCalled
  /\ ServerIdle /\ ScoreIdle /\ FeedIdle /\ AlertIdle /\ AppIdle

GenNext == GenerateSignalCall

SpecGen == GenInit /\ [][GenNext]_vars

\* computeSignalScore on every argument of ScoreInputs.
ScoreInit ==
  /\ scoreIn \in ScoreInputs /\ scoreOut = NotCalled
  /\ ServerIdle /\ GenIdle /\ FeedIdle /\ AlertIdle /\ AppIdle

ScoreNext == ComputeSignalScoreCall

SpecScore == ScoreInit /\ [][ScoreNext]_vars

\* Either App, from before it mounts, with /init answering in every way.
AppInit ==
  /\ authRequired \in BOOLEAN
  /\ appMounted = FALSE
  /\ user = Null
  /\ initialized = FALSE
  /\ signingIn = {}
  /\ signIns = 0
  /\ initCalls = 0
  /\ initOutcomes = <<>>
  /\ toasts = <<>>
  /\ ServerIdle /\ GenIdle /\ ScoreIdle /\ FeedIdle /\ AlertIdle

AppNext ==
  \/ AppMount \/ AuthAppMount \/ AuthSignIn \/ UserChange \/ AuthOnSuccess \/ SignOut
  \/ InitResponseOk \/ InitResponseNotOk \/ InitFetchThrows

SpecApp == AppInit /\ [][AppNext]_vars

\* The App behind sign-in with /init always answering OK.  React runs the
\* render and the effect of a state change, Auth calls onSuccess once its
\* sign-in has resolved, and a fetch that is answered is answered in the
\* end; signing in and out is up to the user.
AuthAppInit == AppInit /\ authRequired = TRUE

AuthAppNext ==
  AuthAppMount \/ AuthSignIn \/ UserChange \/ AuthOnSuccess \/ SignOut \/ InitResponseOk

SpecAuthApp ==
  /\ AuthAppInit
  /\ [][AuthAppNext]_vars
  /\ WF_vars(AuthAppMount)
  /\ WF_vars(UserChange)
  /\ WF_vars(AuthOnSuccess)
  /\ WF_vars(InitResponseOk)

\* The store the feed is served from: an NFL signal of score 75 and an NBA
\* signal of score 47.
FeedStore ==
  LET nfl == generateSignal(NewMarketState(0, MarketDraw("NFL", "Chiefs", <<"Bills">>,
                                                         "Moneyline", Scale - 1)),
                            0, 14, Scale - 1, 0)
      nba == generateSignal(NewMarketState(1, MarketDraw("NBA", "Lakers", <<"Celtics">>,
                                                         "Spread", (3 * Scale + 9) \div 10)),
                            0, 14, Scale - 1, 1)
  IN kvSet(kvSet(EmptyTable, nfl.id, JSONstringify(nfl)), nba.id, JSONstringify(nba))

\* LiveSignalFeed with the answers to its requests arriving in any order.
FeedLoadInit ==
  /\ FeedIdle
  /\ kvSignal = FeedStore
  /\ kvMarket = EmptyTable
  /\ clock = MaxTime
  /\ activeSignals = <<>>
  /\ resp = NoResponse
  /\ GenIdle /\ ScoreIdle /\ AlertIdle /\ AppIdle

FeedLoadNext ==
  \/ Mount \/ SetSportFilter \/ SetConfidenceFilter \/ TimerTick \/ Refresh \/ Unmount
  \/ LoadSignalsResponse

SpecFeedLoad == FeedLoadInit /\ [][FeedLoadNext]_vars

\* The alert handlers called by clients that wait for each answer, on a
\* store an init has filled.
AlertInit ==
  /\ kvMarket = initializeMockMarkets(EmptyTable, [i \in 0..(NumMarkets - 1) |->
                   MarketDraw("NFL", "Chiefs", <<"Chiefs", "Bills">>, "Moneyline", Scale - 1)])
  /\ kvSignal \in SignalTables(1) \ {EmptyTable}
  /\ clock = 0
  /\ activeSignals = <<>>
  /\ resp = NoResponse
  /\ AlertIdle /\ GenIdle /\ ScoreIdle /\ FeedIdle /\ AppIdle

AlertNext == PostAlertReadSequential \/ PostAlertWrite \/ GetAlerts

SpecAlerts == AlertInit /\ [][AlertNext]_vars

\* The alert handlers called concurrently.
ConcurrentAlertNext == PostAlertRead \/ PostAlertWrite \/ GetAlerts

SpecAlertsConcurrent == AlertInit /\ [][ConcurrentAlertNext]_vars

\* The arguments tried when both functions are called beside a store: market
\* states on both sides of the 0.3 gate, and finite and non-finite scores.
PureGenInputs ==
  {m \in GenInputs : /\ m.volatility \in {0, (3 * Scale + 9) \div 10, Scale - 1}
                     /\ m.sport = "NBA" /\ m.marketType = "Spread"}

PureScoreInputs ==
  {p \in ScoreInputs : /\ p.edgeSize \in {Fin(5), Fin(ScoreSpan), NaN}
                       /\ p.marketStability \in {Fin(-5), PosInf}
                       /\ p.speed = Fin(5) /\ p.persistence = Fin(100)
                       /\ p.historicalPerformance = Fin(0)}

\* Both functions called, in any order and repeatedly, before the first init
\* and on a store an init and generate calls have filled.
PureInit ==
  /\ \/ kvMarket = EmptyTable /\ kvSignal = EmptyTable
     \/ /\ kvMarket = initializeMockMarkets(EmptyTable, [i \in 0..(NumMarkets - 1) |->
                          MarketDraw("NFL", "Chiefs", <<"Chiefs", "Bills">>, "Moneyline", Scale - 1)])
        /\ kvSignal \in SignalTables(1)
  /\ clock = MaxTime
  /\ activeSignals = <<>>
  /\ resp = NoResponse
  /\ genIn \in PureGenInputs /\ genOut = NotCalled
  /\ scoreIn \in PureScoreInputs /\ scoreOut = NotCalled
  /\ FeedIdle /\ AlertIdle /\ AppIdle

PureNext == GenerateSignalCall \/ ComputeSignalScoreCall

SpecPure == PureInit /\ [][PureNext]_vars

\* LiveSignalFeed mounting, changing filters, polling and unmounting.
FeedInit == FeedIdle /\ ServerIdle /\ GenIdle /\ ScoreIdle /\ AlertIdle /\ AppIdle

FeedNext == Mount \/ SetSportFilter \/ SetConfidenceFilter \/ TimerTick \/ Refresh \/ Unmount

SpecFeed == FeedInit /\ [][FeedNext]_vars

(***************************************************************************)
(* Properties                                                              *)
(***************************************************************************)
\* The signals stored under signal:<id>, and the markets under market:<id>.
StoredSignals == {JSONparse(kvSignal[x]) : x \in DOMAIN kvSignal}
StoredMarkets == {JSONparse(kvMarket[x]) : x \in DOMAIN kvMarket}

\* C1: every signal generateSignal returns has confidence "high" exactly
\* when its signalScore is above 75, "medium" exactly when it is above 55
\* and at most 75, and "low" exactly when it is at most 55.
C1_ConfidenceFromScore ==
  (genOut.called /\ genOut.result # Null) =>
    LET sig == genOut.result IN
    /\ (sig.confidence = "high") <=> (sig.signalScore > 75)
    /\ (sig.confidence = "medium") <=> (sig.signalScore > 55 /\ sig.signalScore <= 75)
    /\ (sig.confidence = "low") <=> (sig.signalScore <= 55)

\* C1's case: a signal whose score is exactly 75, which is "medium".
C1_Witness ==
  /\ genOut.called
  /\ genOut.result # Null
  /\ genOut.result.signalScore = 75
  /\ genOut.result.confidence = "medium"

\* C2: after any sequence of POST /init and POST /signals/generate, every
\* stored signal's signalScore is an integer from 0 to 100.
C2_StoredScoreInRange ==
  \A sig \in StoredSignals : sig.signalScore \in 0..100

\* C2's case: after an init and a generate, a stored signal whose uncapped
\* score (0.99*40 + 9.92*5 + 0.99*20 = 109) was cut to 100.
C2_Witness ==
  /\ resp.route = "generate"
  /\ \E sig \in StoredSignals :
       /\ sig.signalScore = 100
       /\ sig.edge = EdgeScaled(Scale - 1)

\* The fields of computeSignalScore's argument.
C3_Fields ==
  {scoreIn.edgeSize, scoreIn.speed, scoreIn.persistence,
   scoreIn.marketStability, scoreIn.historicalPerformance}

C3_AllFinite == \A x \in C3_Fields : x.k = "fin"

\* Ten times the weighted sum of finite fields.
C3_ExactTenths ==
  3 * scoreIn.edgeSize.v + 2 * scoreIn.speed.v + 2 * scoreIn.persistence.v
  + scoreIn.marketStability.v + 2 * scoreIn.historicalPerformance.v

\* out is an integer nearest to the weighted sum, clamped to 0..100.
C3_RoundedAndClamped(out) ==
  \E r \in (C3_ExactTenths \div 10 - 1)..(C3_ExactTenths \div 10 + 1) :
    /\ 10 * r - C3_ExactTenths \in (-5)..5
    /\ out = IF r < 0 THEN 0 ELSE IF r > 100 THEN 100 ELSE r

\* C3 as stated: for every input the result is the weighted sum rounded to
\* the nearest integer and clamped, and lies in 0..100.
C3_AsStated ==
  scoreOut.called =>
    /\ scoreOut.result.k = "fin"
    /\ scoreOut.result.v \in 0..100
    /\ C3_AllFinite => C3_RoundedAndClamped(scoreOut.result.v)

\* C3 amended: for finite fields the result is the weighted sum rounded to
\* the nearest integer and clamped to 0..100; with infinite fields of one
\* sign it is 100 or 0; with a NaN field, or with +Infinity and -Infinity
\* among the fields, it is NaN.
C3_FiniteInputsClamped ==
  scoreOut.called =>
    LET hasNaN == \E x \in C3_Fields : x.k = "nan"
        hasPos == PosInf \in C3_Fields
        hasNeg == NegInf \in C3_Fields
    IN
    /\ C3_AllFinite =>
         /\ scoreOut.result.k = "fin"
         /\ scoreOut.result.v \in 0..100
         /\ C3_RoundedAndClamped(scoreOut.result.v)
    /\ (~hasNaN /\ hasPos /\ ~hasNeg) => scoreOut.result = Fin(100)
    /\ (~hasNaN /\ hasNeg /\ ~hasPos) => scoreOut.result = Fin(0)
    /\ (hasNaN \/ (hasPos /\ hasNeg)) => scoreOut.result = NaN

\* C3's case: finite fields whose weighted sum is negative, answered by 0.
C3_Witness ==
  /\ scoreOut.called
  /\ C3_AllFinite
  /\ C3_ExactTenths < -5
  /\ scoreOut.result = Fin(0)

\* C4: once a POST /init has completed, the stored signals are those that
\* init created (none is left from an earlier init or generate call) and
\* the stored markets are the NumMarkets markets of that init.
C4_InitOverwritesAll ==
  resp.route = "init" =>
    /\ \A sig \in StoredSignals : \E i \in 1..Len(activeSignals) : activeSignals[i] = sig
    /\ DOMAIN kvMarket = {MarketId(i) : i \in 0..(NumMarkets - 1)}

\* C5: generateSignal returns null exactly when the volatility is below
\* 0.3, whatever the draws and the other fields of the market.
C5_NullIffBelowThreshold ==
  genOut.called =>
    ((genOut.result = Null) <=> (genIn.volatility * 10 < 3 * Scale))

\* C5's case: a market whose volatility is exactly 0.3 gets a signal.
C5_Witness ==
  /\ genOut.called
  /\ genIn.volatility * 10 = 3 * Scale
  /\ genOut.result # Null

\* C6: the list GET /signals returns is ordered by signalScore, highest
\* first, and signals of equal score by triggeredAt, latest first.
C6_ResponseSorted ==
  resp.route = "signals" =>
    LET list == resp.body.signals IN
    \A i, j \in 1..Len(list) :
      i < j =>
        /\ list[i].signalScore >= list[j].signalScore
        /\ (list[i].signalScore = list[j].signalScore
              => list[i].triggeredAt >= list[j].triggeredAt)

\* C6's case: a response with two signals of one score and different times.
C6_Witness ==
  /\ resp.route = "signals"
  /\ Len(resp.body.signals) = 2
  /\ resp.body.signals[1].signalScore = resp.body.signals[2].signalScore
  /\ resp.body.signals[1].triggeredAt > resp.body.signals[2].triggeredAt

\* A stored signal passes the filters of the request ("" is a parameter
\* that is absent or empty).
C7_Matches(sig, sport, marketType, minConfidence) ==
  /\ sport # "" => sig.sport = sport
  /\ marketType # "" => sig.marketType = marketType
  /\ minConfidence = "high" => sig.signalScore >= 75
  /\ minConfidence = "medium" => sig.signalScore >= 55

\* C7: GET /signals returns every stored signal that passes the supplied
\* filters exactly once, and nothing else.
C7_ResponseIsFilteredStore ==
  resp.route = "signals" =>
    LET list == resp.body.signals
        matching == {sig \in StoredSignals :
                       C7_Matches(sig, resp.sport, resp.marketType, resp.minConfidence)}
    IN
    /\ {list[i] : i \in 1..Len(list)} = matching
    /\ Len(list) = Cardinality(matching)

\* C7's case: a sport filter that keeps one of two stored signals.
C7_Witness ==
  /\ resp.route = "signals"
  /\ resp.sport = "NFL"
  /\ Cardinality(StoredSignals) = 2
  /\ Len(resp.body.signals) = 1

\* C8: every stored market has a volatility from 0 to 1.
C8_VolatilityInUnitInterval ==
  \A m \in StoredMarkets : 0 <= m.volatility /\ m.volatility <= Scale

\* C8's case: two inits have run and a stored market has the largest
\* volatility drawn.
C8_Witness ==
  /\ resp.route = "init"
  /\ Cardinality(StoredMarkets) = NumMarkets
  /\ Cardinality(StoredSignals) > Len(activeSignals)
  /\ \E m \in StoredMarkets : m.volatility = Scale - 1

\* C9: at most one interval is active; while the feed is mounted exactly
\* one is, it has the 30 s delay and it calls the loadSignals of the current
\* filters; after unmount none is.
C9_OneTimerWhileMounted ==
  /\ Cardinality(timers) <= 1
  /\ mounted =>
       timers = {[id |-> effectTimer, delay |-> 30000,
                  sport |-> sportFilter, confidence |-> confidenceFilter]}
  /\ ~mounted => timers = {}

\* C9's case: mounted, both filters changed, and a request made by the
\* interval of the current filters.
C9_Witness ==
  /\ mounted
  /\ sportFilter = "NFL"
  /\ confidenceFilter = "high"
  /\ effectTimer = 3
  /\ Len(requests) = 4
  /\ requests[4] = [sport |-> "NFL", minConfidence |-> "high"]

\* The three counts as the dashboard labels them: score >= 75, 55-74, < 55.
C10_CountsByScore(allSignals) ==
  [ high   |-> Len(SelectSeq(allSignals, LAMBDA x : x.signalScore >= 75)),
    medium |-> Len(SelectSeq(allSignals, LAMBDA x : x.signalScore >= 55 /\ x.signalScore < 75)),
    low    |-> Len(SelectSeq(allSignals, LAMBDA x : x.signalScore < 55)) ]

\* C10: byConfidence.high counts the stored signals with signalScore >= 75,
\* medium those from 55 to 74 and low those below 55.
C10_CountsMatchLabels ==
  resp.route = "analytics" =>
    \A signalKeys \in kvGetByPrefix(kvSignal) :
      resp.body.byConfidence =
        C10_CountsByScore([i \in 1..Len(signalKeys) |-> JSONparse(signalKeys[i].value)])

\* C11: GET /signals/:id answers 404 "Signal not found" exactly when no
\* record is stored under signal:<id>, and otherwise 200 with the stored
\* record; GET /markets/:id does the same for market:<id> with "Market not
\* found".
C11_LookupFoundOrNotFound ==
  /\ resp.route = "signal" =>
       IF resp.id \in DOMAIN kvSignal
       THEN /\ resp.status = 200
            /\ resp.body = [signal |-> JSONparse(kvSignal[resp.id])]
            /\ resp.body.signal \in StoredSignals
       ELSE /\ resp.status = 404
            /\ resp.body = [error |-> "Signal not found"]
  /\ resp.route = "market" =>
       IF resp.id \in DOMAIN kvMarket
       THEN /\ resp.status = 200
            /\ resp.body = [market |-> JSONparse(kvMarket[resp.id])]
            /\ resp.body.market \in StoredMarkets
       ELSE /\ resp.status = 404
            /\ resp.body = [error |-> "Market not found"]

\* C11's case: a signal id that is not stored, asked for while other
\* signals are stored, is answered 404.
C11_Witness ==
  /\ resp.route = "signal"
  /\ resp.status = 404
  /\ Cardinality(StoredSignals) = MaxSignals

C14_FilterAgreesWithBucket ==
  resp.route = "signals" =>
    LET list == resp.body.signals IN
    /\ resp.minConfidence = "high" =>
         \A i \in 1..Len(list) : list[i].confidence = "high"
    /\ resp.minConfidence = "medium" =>
         \A i \in 1..Len(list) : list[i].confidence \in {"medium", "high"}

\* The count, in halves, of the generateActiveSignals call behind the last
\* response; a negative count is read as 0.
C15_CountHalves ==
  IF resp.route = "init" THEN 2 * 15 ELSE IF resp.count < 0 THEN 0 ELSE resp.count

\* C15: the call considered exactly min(count, number of stored markets)
\* stored markets (the whole part of it, when count has a fraction), none of
\* them less volatile than a market it left out; it
\* returned one signal, with the market's eventId, eventName, sport and
\* marketType, for each considered market of volatility >= 0.3 and no other
\* signal; every returned signal is stored under signal:<id>; and it
\* returned at most count signals.
C15_TopMarketsSignalled ==
  resp.route \in {"init", "generate"} =>
    /\ \E considered \in SUBSET StoredMarkets :
         /\ Cardinality(considered)
              = MinInt(C15_CountHalves, 2 * Cardinality(StoredMarkets)) \div 2
         /\ \A a \in considered, b \in StoredMarkets \ considered :
              a.volatility >= b.volatility
         /\ LET volatile == {m \in considered : m.volatility * 10 >= 3 * Scale} IN
            /\ Len(activeSignals) = Cardinality(volatile)
            /\ \A m \in volatile : \E i \in 1..Len(activeSignals) :
                 /\ activeSignals[i].eventId = m.eventId
                 /\ activeSignals[i].eventName = m.eventName
                 /\ activeSignals[i].sport = m.sport
                 /\ activeSignals[i].marketType = m.marketType
    /\ \A i \in 1..Len(activeSignals) :
         kvGet(kvSignal, activeSignals[i].id) = JSONstringify(activeSignals[i])
    /\ 2 * Len(activeSignals) <= C15_CountHalves

\* The alert list stored for a user.
StoredAlerts(userId) == ParseAlerts(kvGet(kvAlerts, userId))

\* C16: once every concurrent POST /alerts/:userId has been answered, the
\* list stored for a user contains every alert that was answered to a
\* client for that user.
C16_NoLostAlert ==
  alertCalls = {} =>
    \A i \in 1..Len(alertLog) :
      \E j \in 1..Len(StoredAlerts(alertLog[i].userId)) :
        StoredAlerts(alertLog[i].userId)[j] = alertLog[i].alert

\* The alerts answered for a user by the first n answered POST requests, in
\* the order of the answers.
C17_AnsweredAlerts(userId, n) ==
  LET entries == SelectSeq(SubSeq(alertLog, 1, n), LAMBDA e : e.userId = userId) IN
  [i \in 1..Len(entries) |-> entries[i].alert]

\* An answered alert carries the fields of the posted body, except that its
\* createdAt is a time the server read.
C17_AlertOfBody(alert, body) ==
  /\ \A k \in DOMAIN body \ {"createdAt"} : alert[k] = body[k]
  /\ "id" \in DOMAIN alert
  /\ alert.createdAt \in 0..MaxTime

\* What holds in every state when POST requests are made one after another.
C17_ListsAreLogs ==
  /\ \A i \in 1..Len(alertLog) : C17_AlertOfBody(alertLog[i].alert, alertLog[i].body)
  /\ alertCalls = {} =>
       \A userId \in AlertUsers :
         StoredAlerts(userId) = C17_AnsweredAlerts(userId, Len(alertLog))
  /\ resp.route = "alerts" =>
       resp.body.alerts = C17_AnsweredAlerts(resp.userId, resp.after)

\* C17: with POST requests made one after another, GET /alerts/u returns
\* the alerts answered for u so far, in creation order (the empty list when
\* there is none), each with the posted body's fields and a createdAt the
\* server set; and a POST for u changes no other user's list and no signal
\* or market record.
C17_AppendOnlyPerUser ==
  [][ /\ C17_ListsAreLogs'
      /\ UNCHANGED <<kvMarket, kvSignal>>
      /\ kvAlerts' # kvAlerts =>
           \A userId \in AlertUsers \ {alertLog'[Len(alertLog')].userId} :
             kvGet(kvAlerts', userId) = kvGet(kvAlerts, userId) ]_vars

\* C17's case: two POST requests for u1, of which the first brought its own
\* id and createdAt, and then a GET for u1 that returned both alerts.
C17_Witness ==
  /\ resp.route = "alerts"
  /\ resp.userId = "u1"
  /\ Len(resp.body.alerts) = 2
  /\ resp.body.alerts[1].id = "mine"
  /\ resp.body.alerts[2].minScore = 75
  /\ kvSignal # EmptyTable

\* What GET /signals answers, on the store as it is, to a request made with
\* the filters now selected.
C18_CurrentResponses ==
  { GetSignalsBody(signalKeys, LoadSignalsRequest(sportFilter, confidenceFilter).sport, "",
                   LoadSignalsRequest(sportFilter, confidenceFilter).minConfidence).signals
    : signalKeys \in kvGetByPrefix(kvSignal) }

\* C18: while the feed is mounted, once every request it has made has been
\* answered (none failed), the displayed list is the answer to a request
\* made with the filters now selected.
C18_DisplayMatchesFilters ==
  ( /\ mounted
    /\ requests # <<>>
    /\ Outstanding = {}
    /\ \A c \in completed : c.outcome # "error" )
  => signalsState \in C18_CurrentResponses

C20_FailedCalls == Len(SelectSeq(initOutcomes, LAMBDA o : o # "ok"))
C20_ErrorToasts == Len(SelectSeq(toasts, LAMBDA t : t = InitErrorToast))

\* C20: every initializeApp call that did not succeed, because fetch threw
\* or because the response was not OK, has shown the toast "Failed to
\* initialize. Please refresh the page."; and while no call has succeeded
\* initialized is FALSE.
C20_FailureReported ==
  /\ C20_ErrorToasts = C20_FailedCalls
  /\ (\A i \in 1..Len(initOutcomes) : initOutcomes[i] # "ok") => ~initialized

====
